---- MODULE Spec2Model ----
(***************************************************************************)
(* Model of src/script.js: class TicTacToe (board, move history, win/draw  *)
(* flags, play, takeBack, minimax with alpha-beta window, goodMove).       *)
(***************************************************************************)
EXTENDS Integers, Sequences, FiniteSets, TLC

VARIABLES
    game,   \* the TicTacToe instance: [board, moves, isWin, isDraw]
    op,     \* the method called last: "new", "play", "takeBack", "goodMove"
    arg,    \* goodMove's depth argument (0 for the other methods)
    ok,     \* play/takeBack: the boolean returned; goodMove: it returned normally
    found,  \* goodMove: the object minimax returned to it (line 84)
    ret,    \* goodMove: the index returned (Undefined when it returned undefined)
    human,  \* the page's variable human (line 100): the player number of the user
    timers, \* the pending setTimeout callbacks of line 131, oldest first, each
            \* with the number of the game it was scheduled in
    gameNo, \* how many TicTacToe instances newGame has created (line 150)
    undos,  \* how many times Undo Move has been clicked
    fired,  \* what the timer callback that ran last found when it started
    trace,  \* goodMove, minimax: what the calls made inside the search did
    before  \* goodMove, minimax: the instance as it was when the search was
            \* called (a new instance after any other operation)

uiVars == <<human, timers, gameNo, undos, fired>>

vars == <<game, op, arg, ok, found, ret, human, timers, gameNo, undos, fired, trace,
          before>>

\* ---------------------------------------------------------------- bounds
\* goodMove is called with depth 1..MaxDepth
MaxDepth == 9

\* at most MaxTimers callbacks are pending at once
MaxTimers == 2

\* Undo Move is clicked at most MaxUndo times
MaxUndo == 1

\* newGame runs at most MaxGames times, the call of line 182 included
MaxGames == 2

\* ------------------------------------------------------------- constants
\* Array(9) of line 5, this.board.length of line 32
BoardSize == 9

Cells == 0 .. (BoardSize - 1)

\* Number.NEGATIVE_INFINITY / Infinity of the search window: any integer
\* strictly above every leaf value (10) that negates to its opposite.
Infinity == 1000

\* the value of an absent move (JavaScript undefined)
Undefined == -1

Max(a, b) == IF a >= b THEN a ELSE b

\* ---------------------------------------------------------- TicTacToe core
\* constructor (lines 3-8)
NewGame ==
    [board |-> [c \in Cells |-> 0], moves |-> <<>>, isWin |-> FALSE, isDraw |-> FALSE]

\* get turn with the players exchanged: player 2 on an even history length
turnSecondFirst(g) == 2 - (Len(g.moves) % 2)

\* get turn (lines 11-13)
turn(g) == 1 + (Len(g.moves) % 2)

\* the indices 0..8 the map of line 18 runs over
Indices == [i \in 1 .. BoardSize |-> i - 1]

\* get validMoves (lines 17-19): the empty cells in ascending index order
validMoves(g) == SelectSeq(Indices, LAMBDA index : g.board[index] = 0)

\* The four alternatives of the regular expression of line 31 over the string
\* board.join(""), whose character at offset i is the digit of cell i.
\*   ^(?:...)*([12])\1\1     three equal marks at offsets 3k, 3k+1, 3k+2
RowPattern(s) ==
    \E k \in 0 .. 2 : s[3 * k] \in {1, 2} /\ s[3 * k + 1] = s[3 * k] /\ s[3 * k + 2] = s[3 * k]

\*   ^.?.?([12])..\2..\2     three equal marks at offsets k, k+3, k+6, k <= 2
ColPattern(s) ==
    \E k \in 0 .. 2 : s[k] \in {1, 2} /\ s[k + 3] = s[k] /\ s[k + 6] = s[k]

\*   ^([12])...\3...\3       offsets 0, 4, 8
DiagPattern(s) == s[0] \in {1, 2} /\ s[4] = s[0] /\ s[8] = s[0]

\*   ^..([12]).\4.\4         offsets 2, 4, 6
AntiDiagPattern(s) == s[2] \in {1, 2} /\ s[4] = s[2] /\ s[6] = s[2]

WinTest(s) == RowPattern(s) \/ ColPattern(s) \/ DiagPattern(s) \/ AntiDiagPattern(s)

\* line 32 without the test of isWin
DrawTestFullOnly(w, ms) == Len(ms) = BoardSize

\* line 32 with moves.length > 9: a full board is never a draw
DrawTestPastFull(w, ms) == ~w /\ Len(ms) > BoardSize

\* line 32
DrawTest(w, ms) == ~w /\ Len(ms) = BoardSize

\* play without the test of the cell (line 24 as: if (this.isWin) return false)
playOverwrite(g, move) ==
    IF move \notin Cells \/ g.isWin
    THEN [game |-> g, ret |-> FALSE]
    ELSE LET b  == [g.board EXCEPT ![move] = turn(g)]
             ms == Append(g.moves, move)
             w  == WinTest(b)
         IN  [game |-> [board |-> b, moves |-> ms, isWin |-> w,
                        isDraw |-> ~w /\ Len(ms) = BoardSize],
              ret |-> TRUE]

\* play without the test of isWin (line 24 as: if (this.board[move] !== 0) return false)
playAfterWin(g, move) ==
    IF move \notin Cells \/ g.board[move] # 0
    THEN [game |-> g, ret |-> FALSE]
    ELSE LET b  == [g.board EXCEPT ![move] = turn(g)]
             ms == Append(g.moves, move)
             w  == WinTest(b)
         IN  [game |-> [board |-> b, moves |-> ms, isWin |-> w,
                        isDraw |-> ~w /\ Len(ms) = BoardSize],
              ret |-> TRUE]

\* play(move) (lines 22-34): the object after the call and the value returned
play(g, move) ==
    IF move \notin Cells \/ g.board[move] # 0 \/ g.isWin
    THEN [game |-> g, ret |-> FALSE]
    ELSE LET b  == [g.board EXCEPT ![move] = turn(g)]
             ms == Append(g.moves, move)
             w  == WinTest(b)
         IN  [game |-> [board |-> b, moves |-> ms, isWin |-> w,
                        isDraw |-> DrawTest(w, ms)],
              ret |-> TRUE]

\* takeBack without line 43: the flags keep their values
takeBackKeepFlags(g) ==
    IF Len(g.moves) = 0
    THEN [game |-> g, ret |-> FALSE]
    ELSE [game |-> [g EXCEPT !.board = [g.board EXCEPT ![g.moves[Len(g.moves)]] = 0],
                             !.moves = SubSeq(g.moves, 1, Len(g.moves) - 1)],
          ret |-> TRUE]

\* takeBack with shift() for pop() in line 42: the first move is undone
takeBackShift(g) ==
    IF Len(g.moves) = 0
    THEN [game |-> g, ret |-> FALSE]
    ELSE [game |-> [board |-> [g.board EXCEPT ![g.moves[1]] = 0],
                    moves |-> SubSeq(g.moves, 2, Len(g.moves)),
                    isWin |-> FALSE, isDraw |-> FALSE],
          ret |-> TRUE]

\* takeBack() (lines 37-45)
takeBack(g) ==
    IF Len(g.moves) = 0
    THEN [game |-> g, ret |-> FALSE]
    ELSE [game |-> [board |-> [g.board EXCEPT ![g.moves[Len(g.moves)]] = 0],
                    moves |-> SubSeq(g.moves, 1, Len(g.moves) - 1),
                    isWin |-> FALSE, isDraw |-> FALSE],
          ret |-> TRUE]

\* ------------------------------------------------------------------ search
\* an object { value } without a moves property (lines 51-53, 57)
NoMoves(v) == [value |-> v, hasMoves |-> FALSE, moves |-> <<>>]

\* What a minimax call did: paired is whether every play of line 62 in it
\* returned true, the call of line 63 left the instance as that play made it,
\* and the takeBack of line 64 returned true and left the instance as it was
\* before the play; nest is how many minimax calls deep the recursion of line
\* 63 went below it.
NoCalls == [paired |-> TRUE, nest |-> 0]

\* line 71
Prune(alpha, beta) == alpha >= beta

\* lines 74-77 with the push of line 76 under an else: a strictly better move
\* starts an empty list and is not entered in it
TrackBestElsePush(best, value, move) ==
    IF value >= best.value
    THEN IF value > best.value
         THEN [value |-> value, hasMoves |-> TRUE, moves |-> <<>>]
         ELSE [best EXCEPT !.moves = Append(best.moves, move)]
    ELSE best

\* lines 74-77
TrackBest(best, value, move) ==
    IF value >= best.value
    THEN IF value > best.value
         THEN [value |-> value, hasMoves |-> TRUE, moves |-> <<move>>]
         ELSE [best EXCEPT !.moves = Append(best.moves, move)]
    ELSE best

\* minimax(depth, alpha, beta) (lines 48-80): the object returned, and the
\* instance as the call leaves it.
RECURSIVE minimax(_, _, _, _)
RECURSIVE MinimaxLoop(_, _, _, _, _, _, _, _)

\* minimax with the break of line 71 taken before the takeBack of line 64: a
\* cut-off leaves the move on the board
MinimaxLoopBreakFirst(g, vm, i, depth, alpha, beta, best, run) ==
    IF i > Len(vm) THEN [best |-> best, game |-> g, run |-> run]
    ELSE LET move   == vm[i]
             played == play(g, move)
             child  == minimax(played.game, depth - 1, -beta, -alpha)
             value  == -child.best.value
             alpha2 == Max(alpha, value)
         IN  IF Prune(alpha2, beta)
             THEN [best |-> best, game |-> child.game, run |-> run]
             ELSE MinimaxLoop(takeBack(child.game).game, vm, i + 1, depth,
                              alpha2, beta, TrackBest(best, value, move), run)

\* the for loop of lines 60-78, at the i-th element of the array vm that the
\* validMoves getter returned when the loop was entered
MinimaxLoop(g, vm, i, depth, alpha, beta, best, run) ==
    IF i > Len(vm) THEN [best |-> best, game |-> g, run |-> run]
    ELSE LET move   == vm[i]
             played == play(g, move)
             child  == minimax(played.game, depth - 1, -beta, -alpha)
             undone == takeBack(child.game)
             value  == -child.best.value
             alpha2 == Max(alpha, value)
             run2   == [paired |-> /\ run.paired
                                   /\ played.ret
                                   /\ child.run.paired
                                   /\ child.game = played.game
                                   /\ undone.ret
                                   /\ undone.game = g,
                        nest   |-> Max(run.nest, 1 + child.run.nest)]
         IN  IF Prune(alpha2, beta)
             THEN [best |-> best, game |-> undone.game, run |-> run2]
             ELSE MinimaxLoop(undone.game, vm, i + 1, depth, alpha2, beta,
                              TrackBest(best, value, move), run2)

\* minimax with the tests of lines 51-53 in the order depth, isDraw, isWin: an
\* exhausted depth returns 0 on a won state too
minimaxDepthFirst(g, depth, alpha, beta) ==
    IF g.isWin \/ g.isDraw \/ depth = 0
    THEN IF depth = 0 \/ g.isDraw
         THEN [best |-> NoMoves(0), game |-> g, run |-> NoCalls]
         ELSE [best |-> NoMoves(-10), game |-> g, run |-> NoCalls]
    ELSE MinimaxLoop(g, validMoves(g), 1, depth, alpha, beta,
                     NoMoves(-Infinity), NoCalls)

\* minimax without the depth test of line 50: the search runs to the end of
\* the game whatever depth is
minimaxNoDepthLimit(g, depth, alpha, beta) ==
    IF g.isWin \/ g.isDraw
    THEN IF g.isWin THEN [best |-> NoMoves(-10), game |-> g, run |-> NoCalls]
         ELSE [best |-> NoMoves(0), game |-> g, run |-> NoCalls]
    ELSE MinimaxLoop(g, validMoves(g), 1, depth, alpha, beta,
                     NoMoves(-Infinity), NoCalls)

minimax(g, depth, alpha, beta) ==
    IF g.isWin \/ g.isDraw \/ depth = 0
    THEN IF g.isWin THEN [best |-> NoMoves(-10), game |-> g, run |-> NoCalls]
         ELSE [best |-> NoMoves(0), game |-> g, run |-> NoCalls]
    ELSE MinimaxLoop(g, validMoves(g), 1, depth, alpha, beta,
                     NoMoves(-Infinity), NoCalls)

\* ---------------------------------------------------------------- actions
\* no timer callback has run
NotFired == [terminal |-> FALSE, humanTurn |-> FALSE, stale |-> FALSE]

Init ==
    /\ game = NewGame
    /\ op = "new"
    /\ arg = 0
    /\ ok = TRUE
    /\ found = NoMoves(0)
    /\ ret = Undefined
    /\ human = 1
    /\ timers = <<>>
    /\ gameNo = 1
    /\ undos = 0
    /\ fired = NotFired
    /\ trace = NoCalls
    /\ before = NewGame

Play(m) ==
    \E r \in {play(game, m)} :
        /\ game' = r.game
        /\ op' = "play"
        /\ ok' = r.ret
        /\ arg' = 0
        /\ found' = NoMoves(0)
        /\ ret' = Undefined
        /\ trace' = NoCalls
        /\ before' = NewGame
        /\ UNCHANGED uiVars

TakeBack ==
    \E r \in {takeBack(game)} :
        /\ game' = r.game
        /\ op' = "takeBack"
        /\ ok' = r.ret
        /\ arg' = 0
        /\ found' = NoMoves(0)
        /\ ret' = Undefined
        /\ trace' = NoCalls
        /\ before' = NewGame
        /\ UNCHANGED uiVars

\* goodMove with Math.round for Math.floor in line 85: the index may be
\* moves.length, where the array has no element
GoodMoveRound(depth) ==
    \E r \in {minimax(game, depth, -Infinity, Infinity)} :
        /\ game' = r.game
        /\ op' = "goodMove"
        /\ arg' = depth
        /\ found' = r.best
        /\ IF ~r.best.hasMoves THEN ok' = FALSE /\ ret' = Undefined
           ELSE /\ ok' = TRUE
                /\ \E k \in 1 .. Len(r.best.moves) + 1 :
                       ret' = IF k <= Len(r.best.moves) THEN r.best.moves[k] ELSE Undefined
        /\ trace' = r.run
        /\ before' = game
        /\ UNCHANGED uiVars

\* goodMove(depth) (lines 83-86). Reading moves.length of an object without a
\* moves property throws a TypeError; Math.random picks any index of moves; an
\* index into an empty array yields undefined.
GoodMove(depth) ==
    \E r \in {minimax(game, depth, -Infinity, Infinity)} :
        /\ game' = r.game
        /\ op' = "goodMove"
        /\ arg' = depth
        /\ found' = r.best
        /\ IF ~r.best.hasMoves THEN ok' = FALSE /\ ret' = Undefined
           ELSE IF r.best.moves = <<>> THEN ok' = TRUE /\ ret' = Undefined
           ELSE ok' = TRUE /\ \E k \in 1 .. Len(r.best.moves) : ret' = r.best.moves[k]
        /\ trace' = r.run
        /\ before' = game
        /\ UNCHANGED uiVars

\* a call minimax(depth, alpha, beta) made on the instance from outside
Minimax(depth, alpha, beta) ==
    \E r \in {minimax(game, depth, alpha, beta)} :
        /\ game' = r.game
        /\ op' = "minimax"
        /\ arg' = depth
        /\ ok' = TRUE
        /\ found' = r.best
        /\ ret' = Undefined
        /\ trace' = r.run
        /\ before' = game
        /\ UNCHANGED uiVars

\* Every sequence of play and takeBack calls on one instance.
Next ==
    \/ \E m \in Cells : Play(m)
    \/ TakeBack

Spec == Init /\ [][Next]_vars

\* ---------------------------------------------------------------- the page
\* computerMove (lines 122-135) on game g with human h and pending callbacks q
\* in game number n: nothing on a finished game, else the user becomes the
\* player who is not to move and one more callback is pending.
computerMove(g, h, q, n) ==
    IF g.isWin \/ g.isDraw
    THEN [human |-> h, timers |-> q]
    ELSE [human |-> 3 - turn(g), timers |-> Append(q, n)]

\* a click on cell i (lines 156-165) runs humanMove(i) (lines 138-145)
ClickCell(i) ==
    /\ Len(timers) < MaxTimers
    /\ \E r \in {play(game, i)} :
           IF turn(game) # human \/ ~r.ret
           THEN UNCHANGED vars
           ELSE \E c \in {computerMove(r.game, human, timers, gameNo)} :
                    /\ game' = r.game
                    /\ human' = c.human
                    /\ timers' = c.timers
                    /\ op' = "play"
                    /\ ok' = TRUE
                    /\ arg' = 0
                    /\ found' = NoMoves(0)
                    /\ ret' = Undefined
                    /\ trace' = NoCalls
                    /\ before' = NewGame
                    /\ UNCHANGED <<gameNo, undos, fired>>

\* a click on New Game (line 168) runs newGame (lines 148-153); the pending
\* callbacks stay pending
ClickNewGame ==
    /\ gameNo < MaxGames
    /\ game' = NewGame
    /\ human' = 1
    /\ gameNo' = gameNo + 1
    /\ op' = "new"
    /\ ok' = TRUE
    /\ arg' = 0
    /\ found' = NoMoves(0)
    /\ ret' = Undefined
    /\ trace' = NoCalls
    /\ before' = NewGame
    /\ UNCHANGED <<timers, undos, fired>>

\* a click on "Let CPU play a move" (line 171) runs computerMove
ClickCpuMove ==
    /\ Len(timers) < MaxTimers
    /\ \E c \in {computerMove(game, human, timers, gameNo)} :
           /\ human' = c.human
           /\ timers' = c.timers
    /\ UNCHANGED <<game, op, arg, ok, found, ret, gameNo, undos, fired, trace, before>>

\* a click on Undo Move (lines 174-180)
ClickUndo ==
    /\ undos < MaxUndo
    /\ undos' = undos + 1
    /\ \E r \in {takeBack(game)} :
           /\ game' = r.game
           /\ ok' = r.ret
    /\ op' = "takeBack"
    /\ arg' = 0
    /\ found' = NoMoves(0)
    /\ ret' = Undefined
    /\ trace' = NoCalls
    /\ before' = NewGame
    /\ UNCHANGED <<human, timers, gameNo, fired>>

\* the oldest pending callback runs (lines 131-134) with depthLevel = depth:
\* game.play(game.goodMove(depth)) on whatever game and human are now.
\* goodMove throws when minimax returned no moves property, and the callback
\* ends there.
TimerFire(depth) ==
    /\ timers # <<>>
    /\ timers' = Tail(timers)
    /\ fired' = [terminal  |-> game.isWin \/ game.isDraw \/ validMoves(game) = <<>>,
                 humanTurn |-> turn(game) = human,
                 stale     |-> Head(timers) # gameNo]
    /\ \E r \in {minimax(game, depth, -Infinity, Infinity)} :
           /\ found' = r.best
           /\ trace' = r.run
           /\ before' = game
           /\ ok' = r.best.hasMoves
           /\ IF ~r.best.hasMoves
              THEN game' = r.game /\ ret' = Undefined
              ELSE \E m \in (IF r.best.moves = <<>> THEN {Undefined}
                             ELSE {r.best.moves[k] : k \in 1 .. Len(r.best.moves)}) :
                       /\ ret' = m
                       /\ game' = play(r.game, m).game
    /\ op' = "timer"
    /\ arg' = depth
    /\ UNCHANGED <<human, gameNo, undos>>

\* the depth the page is used with in a full-strength match
FullSearchDepth == BoardSize

\* A match against the CPU, the page used as its messages direct: the user
\* clicks a cell when no CPU move is being prepared, or hands the first move of
\* a new game to the CPU; the CPU moves by goodMove(FullSearchDepth).
NextMatch ==
    \/ \E i \in Cells : timers = <<>> /\ ClickCell(i)
    \/ game = NewGame /\ timers = <<>> /\ ClickCpuMove
    \/ TimerFire(FullSearchDepth)

SpecMatch == Init /\ [][NextMatch]_vars

\* The page under every interleaving of clicks and timer callbacks.
NextUI ==
    \/ \E i \in Cells : ClickCell(i)
    \/ ClickNewGame
    \/ ClickCpuMove
    \/ ClickUndo
    \/ TimerFire(FullSearchDepth)

SpecUI == Init /\ [][NextUI]_vars

\* The callers of the search: every sequence of play, takeBack and goodMove
\* calls in which each player's marks are placed in ascending cell order, which
\* reaches every board without a completed line through one history instead of
\* all of its orderings, and in which goodMove is not called again on the
\* instance it has just been called on.
Ascending(m) ==
    IF Len(game.moves) < 2 THEN TRUE ELSE m > game.moves[Len(game.moves) - 1]

NextSearch ==
    \/ \E m \in Cells : Ascending(m) /\ Play(m)
    \/ TakeBack
    \/ \E d \in 1 .. MaxDepth : op # "goodMove" /\ GoodMove(d)

SpecSearch == Init /\ [][NextSearch]_vars

\* the alpha and beta minimax is called with: the values it returns
WindowValues == {-Infinity, -10, 0, 10, Infinity}

\* The search called directly: every sequence of play and takeBack calls with
\* each player's marks in ascending cell order, and calls of minimax with every
\* depth and every window alpha <= beta, not repeated on the instance just
\* searched.
NextWindows ==
    \/ \E m \in Cells : Ascending(m) /\ Play(m)
    \/ TakeBack
    \/ \E d \in 0 .. MaxDepth : \E alpha, beta \in WindowValues :
           alpha <= beta /\ op # "minimax" /\ Minimax(d, alpha, beta)

SpecWindows == Init /\ [][NextWindows]_vars

\* ------------------------------------------------------- reference notions
\* the 8 winning index triples: 3 rows, 3 columns, 2 diagonals
Lines ==
    { {0, 1, 2}, {3, 4, 5}, {6, 7, 8}, {0, 3, 6}, {1, 4, 7}, {2, 5, 8}, {0, 4, 8}, {2, 4, 6} }

HasLine(b) == \E l \in Lines : \E p \in {1, 2} : \A c \in l : b[c] = p

Marked(b) == {c \in Cells : b[c] # 0}

Range(s) == {s[k] : k \in 1 .. Len(s)}

Terminal(g) == g.isWin \/ g.isDraw

\* The unpruned negamax value of board b for the player mover who is to move,
\* searched depth plies deep: a completed line is a loss (-10) for the mover,
\* a full board or an exhausted depth is 0, and otherwise the value is the
\* largest negated value over the empty cells.
SetMax(S) == CHOOSE x \in S : \A y \in S : x >= y

RECURSIVE Unpruned(_, _, _)
Unpruned(b, mover, depth) ==
    IF HasLine(b) THEN -10
    ELSE IF Marked(b) = Cells \/ depth = 0 THEN 0
    ELSE SetMax({ -Unpruned([b EXCEPT ![c] = mover], 3 - mover, depth - 1) :
                  c \in Cells \ Marked(b) })

\* the value of playing cell c on board b, for the player who plays it
MoveValue(b, mover, depth, c) == -Unpruned([b EXCEPT ![c] = mover], 3 - mover, depth - 1)

\* the empty cells whose value is the largest
OptimalMoves(b, mover, depth) ==
    LET val == [c \in Cells \ Marked(b) |-> MoveValue(b, mover, depth, c)]
    IN  {c \in DOMAIN val : \A e \in DOMAIN val : val[c] >= val[e]}

\* a search to the end of the game: depth >= number of empty cells
FullDepth == arg >= Len(validMoves(game))

\* ------------------------------------------------------------------ claims
\* C1: for every reachable non-terminal state and full search depth, the
\* value minimax(depth, -Infinity, +Infinity) returns equals the value of an
\* unpruned negamax search of the same state.
C1_ValueEqualsUnpruned ==
    (op = "goodMove" /\ ~Terminal(game) /\ FullDepth) =>
        found.value = Unpruned(game.board, turn(game), arg)

\* C2: for every reachable non-terminal state and full search depth, the move
\* list minimax(depth, -Infinity, +Infinity) returns is exactly the set of valid
\* moves that achieve the maximum value in an unpruned search of the same state.
C2_MovesEqualOptimalSet ==
    (op = "goodMove" /\ ~Terminal(game) /\ FullDepth) =>
        /\ found.hasMoves
        /\ Range(found.moves) = OptimalMoves(game.board, turn(game), arg)
        /\ Cardinality(Range(found.moves)) = Len(found.moves)

\* C3: in every state reachable by play and takeBack calls, successful or
\* failed, the board has exactly moves.length non-empty cells, they are exactly
\* the cells named in moves, moves has no duplicates and at most 9 entries.
C3_BoardMatchesMoves ==
    /\ Cardinality(Marked(game.board)) = Len(game.moves)
    /\ Marked(game.board) = Range(game.moves)
    /\ \A i, j \in 1 .. Len(game.moves) : i # j => game.moves[i] # game.moves[j]
    /\ Len(game.moves) <= 9

\* a play has just failed on a full board
C3_Witness == op = "play" /\ ~ok /\ Len(game.moves) = 9

\* C4: in every reachable state isWin is true iff one of the 8 index triples
\* holds three equal non-empty cells of the current board; takeBack's clearing
\* of isWin never leaves it false on a board with a completed line.
C4_IsWinIffLine == game.isWin <=> HasLine(game.board)

\* a takeBack has just succeeded and left a board one move away from a line
C4_Witness ==
    /\ op = "takeBack" /\ ok /\ ~game.isWin
    /\ \E m \in Cells : game.board[m] = 0 /\ HasLine([game.board EXCEPT ![m] = turn(game)])

\* C5: isWin and isDraw are never both true, and isDraw is true iff isWin is
\* false and the history length is 9.
C5_DrawIffFullNoWin ==
    /\ ~(game.isWin /\ game.isDraw)
    /\ game.isDraw <=> (~game.isWin /\ Len(game.moves) = 9)

\* the ninth move has completed a line
C5_Witness == op = "play" /\ ok /\ Len(game.moves) = 9 /\ game.isWin

\* C6: from every reachable non-terminal state, for every valid move m, play(m)
\* followed immediately by takeBack() restores board, history, isWin and isDraw.
C6_PlayTakeBackRestores ==
    ~Terminal(game) =>
        \A m \in Range(validMoves(game)) :
            LET p == play(game, m)
                t == takeBack(p.game)
            IN  p.ret /\ t.ret /\ t.game = game

\* a non-terminal state reached by a takeBack, in which some valid move
\* completes a line and is undone exactly
C6_Witness ==
    /\ op = "takeBack" /\ ok /\ ~Terminal(game)
    /\ \E m \in Range(validMoves(game)) :
           play(game, m).game.isWin /\ takeBack(play(game, m).game).game = game

\* C7: play(m) returns false and changes nothing whenever cell m is occupied or
\* isWin is true, takeBack() returns false and changes nothing whenever the
\* history is empty, and in all other cases the operation returns true.
C7_FailureIsNoOp ==
    /\ \A m \in Cells :
           LET r == play(game, m)
           IN  IF game.board[m] # 0 \/ game.isWin
               THEN ~r.ret /\ r.game = game
               ELSE r.ret
    /\ LET t == takeBack(game)
       IN  IF Len(game.moves) = 0
           THEN ~t.ret /\ t.game = game
           ELSE t.ret
    /\ (op = "play" /\ ~ok) => (game.isWin \/ Marked(game.board) # {})
    /\ (op = "takeBack" /\ ~ok) => Len(game.moves) = 0

\* a play has just failed on a won game that still has an empty cell
C7_Witness == op = "play" /\ ~ok /\ game.isWin /\ Marked(game.board) # Cells

\* C8: for every reachable non-terminal state and every positive depth, the
\* minimax call made by goodMove returns a non-empty move list, and every value
\* goodMove can return, for any tie-break, is a member of validMoves.
C8_GoodMoveInValidMoves ==
    (op = "goodMove" /\ ~Terminal(game)) =>
        /\ ok
        /\ found.hasMoves
        /\ found.moves # <<>>
        /\ Range(found.moves) \subseteq Range(validMoves(game))
        /\ ret \in Range(found.moves)

\* a search two or more plies deep has returned several tied moves and the
\* tie-break has picked the second
C8_Witness ==
    /\ op = "goodMove" /\ ~Terminal(game) /\ arg >= 2
    /\ Len(found.moves) >= 2 /\ ret = found.moves[2]

\* C9: goodMove called on a state with no valid moves returns undefined and
\* does not throw; no operation of the core ever raises an exception.
C9_GoodMoveNeverThrows ==
    op = "goodMove" =>
        /\ ok
        /\ validMoves(game) = <<>> => ret = Undefined

\* C10: from the empty board with depth >= 9, goodMove returns a move, and
\* every move it can return is one after which the unpruned result under
\* optimal play by both sides is a draw: a member of the optimal tied set of
\* the empty board.
C10_EmptyBoardMoveDraws ==
    (op = "goodMove" /\ game = NewGame /\ arg >= 9) =>
        /\ ok
        /\ ret \in Cells
        /\ \A m \in Range(found.moves) \cup {ret} :
               /\ Unpruned([game.board EXCEPT ![m] = 1], 2, 9) = 0
               /\ m \in OptimalMoves(game.board, 1, 9)

\* goodMove(depth >= 9) has returned a cell on the empty board
C10_Witness == op = "goodMove" /\ game = NewGame /\ arg >= 9 /\ ok /\ ret \in Cells


\* C11: the terminal/cutoff test of minimax comes before move enumeration: on a
\* state with isWin it returns value -10 for any depth and window, on a state
\* with isDraw value 0, and with depth 0 on a non-terminal state value 0; in
\* all three cases no move list is returned and the state is not mutated.
C11_CutoffBeforeMoves ==
    /\ \A d \in 0 .. MaxDepth : \A alpha, beta \in WindowValues :
           (Terminal(game) \/ d = 0) =>
               LET r == minimax(game, d, alpha, beta)
               IN  /\ r.best.value = IF game.isWin THEN -10 ELSE 0
                   /\ ~r.best.hasMoves
                   /\ r.game = game
    /\ (op = "goodMove" /\ Terminal(game)) =>
           /\ found = NoMoves(IF game.isWin THEN -10 ELSE 0)
           /\ ~ok

\* goodMove has been called on a won state that still has empty cells, and
\* its minimax call has returned value -10 and no move list
C11_Witness ==
    /\ op = "goodMove" /\ game.isWin /\ validMoves(game) # <<>>
    /\ found.value = -10 /\ ~found.hasMoves


\* C12: in a match in which the CPU always moves by goodMove(9), moving first
\* or second, the CPU never loses: no finished game has the user's line, that
\* is, no state is won with the user's opponent, the CPU, left to move.
C12_CpuNeverLoses == ~(game.isWin /\ turn(game) # human)


\* C13: a call minimax(depth, alpha, beta) leaves board, moves, isWin and
\* isDraw as it found them, and inside it every play returns true and is
\* undone by the one takeBack that follows it, a cut-off included.
C13_SearchRestoresState ==
    op \in {"goodMove", "minimax"} => game = before /\ trace.paired

\* a search two or more calls deep that was cut off at its first move
C13_Witness ==
    /\ op = "minimax" /\ trace.paired /\ trace.nest >= 2 /\ game = before
    /\ ~found.hasMoves /\ Len(validMoves(game)) >= 2


Min(a, b) == IF a <= b THEN a ELSE b

\* C18: minimax terminates, and the nesting of its recursion never exceeds
\* min(depth, 9 - history length): every call returned, and the calls nested
\* in it went at most that many deep.
C18_NestingBounded ==
    op \in {"goodMove", "minimax"} =>
        trace.nest <= Min(arg, BoardSize - Len(before.moves))

\* a search that went as deep as its depth allows, with empty cells to spare
C18_Witness ==
    /\ op = "minimax"
    /\ trace.nest = arg
    /\ arg >= 2
    /\ arg < BoardSize - Len(before.moves)


\* C14: on the page, under every interleaving of clicks and timer callbacks,
\* goodMove is never invoked on a finished state or a state without a legal
\* move: no timer callback starts in such a state.
C14_NoSearchOnFinishedGame == op = "timer" => ~fired.terminal

\* C15: on the page, the deferred CPU move is applied only when it is the
\* CPU's turn (game.turn differs from human) and on the game it was scheduled
\* for, whatever is clicked during the delay.
C15_CpuMovesOnItsTurn == op = "timer" => ~fired.humanTurn /\ ~fired.stale


\* C16: the state leaves IN_PROGRESS (isWin or isDraw becomes true) only as
\* the result of a successful play, and every successful takeBack, from
\* IN_PROGRESS, WON or DRAWN, yields a state with both flags false, after which
\* play on an empty cell succeeds again.
C16_StatusTransitions ==
    /\ Terminal(game) => op = "play"
    /\ ~Terminal(game) =>
           /\ \A m \in Cells : \A r \in {play(game, m)} : Terminal(r.game) => r.ret
           /\ ~Terminal(takeBack(game).game)
    /\ (op = "takeBack" /\ ok) =>
           /\ ~game.isWin /\ ~game.isDraw
           /\ \A m \in Cells : game.board[m] = 0 => play(game, m).ret

\* a move has just been taken back from a full board, which was won or drawn
C16_Witness == op = "takeBack" /\ ok /\ Len(game.moves) = BoardSize - 1

\* C17: for every position k of the move history the cell moves[k] holds the
\* mark 1 + (k mod 2), counting k from 0, and turn is 1 + (moves.length mod 2):
\* marks alternate starting with player 1, also after takeBack and replay.
C17_MarksAlternate ==
    /\ \A k \in 1 .. Len(game.moves) :
           game.board[game.moves[k]] = 1 + ((k - 1) % 2)
    /\ turn(game) = IF Len(game.moves) % 2 = 0 THEN 1 ELSE 2
    /\ turn(game) = 1 + Cardinality({c \in Cells : game.board[c] = 1})
                       - Cardinality({c \in Cells : game.board[c] = 2})

\* a move has been taken back and player 2 is to move again
C17_Witness ==
    /\ op = "takeBack" /\ ok /\ Len(game.moves) >= 3 /\ turn(game) = 2
    /\ game.board[game.moves[Len(game.moves)]] = 1

\* C19: no reachable state has a full board with both isWin and isDraw false,
\* so a run of successful plays reaches WON or DRAWN after at most 9 plays, and
\* from there no play succeeds until a takeBack.
C19_EveryGameEnds ==
    /\ validMoves(game) = <<>> => (game.isWin \/ game.isDraw)
    /\ Len(game.moves) >= BoardSize => Terminal(game)
    /\ Terminal(game) => \A m \in Cells : ~play(game, m).ret
    /\ (op = "play" /\ ok) => Len(game.moves) <= BoardSize

\* a play has just failed on a drawn game
C19_Witness ==
    /\ op = "play" /\ ~ok /\ game.isDraw /\ ~game.isWin
    /\ validMoves(game) = <<>>

====
